---- MODULE Spec2Model ----
(***************************************************************************)
(* GitHub webhook monitor (src/app.py): the /webhook endpoint normalises   *)
(* push and pull_request notifications into event documents and stores    *)
(* them in one MongoDB collection after a find_one duplicate check; the    *)
(* /events endpoint returns the collection sorted by the timestamp field.  *)
(*                                                                         *)
(* JSON values are tagged records: Str/Path/Iso are JSON strings (plain    *)
(* text, '/'-separated text kept as its segments, ISO-8601 text kept as    *)
(* its fields), Num, Bool, Null, Obj.  Raise is a Python exception.        *)
(***************************************************************************)
EXTENDS Integers, Sequences, FiniteSets, TLC

VARIABLES collection, req, feed

vars == <<collection, req, feed>>

\* Number of webhook deliveries of one run.
MaxReq == 2

Slots == 1..MaxReq

(***************************************************************************)
(* JSON values and the Python operations app.py applies to them            *)
(***************************************************************************)
Null == [t |-> "null"]
Raise == [t |-> "exc"]
Invalid == [t |-> "invalid"]
Str(s) == [t |-> "str", s |-> s]
Path(segs) == [t |-> "str", segs |-> segs]
Iso(y, mo, d, h, mi, z) == [t |-> "str", ts |-> [y |-> y, mo |-> mo, d |-> d, h |-> h, mi |-> mi, z |-> z]]
Num(n) == [t |-> "int", n |-> n]
Bool(b) == [t |-> "bool", b |-> b]
Obj(f) == [t |-> "obj", f |-> f]

IsIso(v) == v.t = "str" /\ "ts" \in DOMAIN v
IsPath(v) == v.t = "str" /\ "segs" \in DOMAIN v
IsText(v) == v.t = "str" /\ "s" \in DOMAIN v

\* d[k] of Python: KeyError when the key is missing, TypeError when d is not a dict
IndexGet(v, k) == IF v.t = "obj" /\ k \in DOMAIN v.f THEN v.f[k] ELSE Null
Index(v, k) == IF v.t = "obj" /\ k \in DOMAIN v.f THEN v.f[k] ELSE Raise

\* d.get(k, default): the default is an already evaluated argument
Get(v, k, default) ==
    IF v.t # "obj" \/ default = Raise THEN Raise
    ELSE IF k \in DOMAIN v.f THEN v.f[k] ELSE default

\* truth value of a JSON value in an `if`
Truthy(v) ==
    CASE v.t = "bool" -> v.b
      [] v.t = "int" -> v.n # 0
      [] v.t = "str" -> v # Str("")
      [] v.t = "obj" -> DOMAIN v.f # {}
      [] OTHER -> FALSE

\* s.split('/')[-1]
FirstSegment(v) ==
    IF v.t # "str" THEN Raise
    ELSE IF IsPath(v) THEN Str(v.segs[1]) ELSE v
LastSegment(v) ==
    IF v.t # "str" THEN Raise
    ELSE IF IsPath(v) THEN Str(v.segs[Len(v.segs)]) ELSE v

\* str(x) for the id of a pull request
PyStr(v) ==
    CASE v.t = "int" -> ToString(v.n)
      [] v.t = "null" -> "None"
      [] v.t = "bool" -> IF v.b THEN "True" ELSE "False"
      [] IsText(v) -> v.s
      [] OTHER -> "?"

(***************************************************************************)
(* Normalisation: handle_push_event and handle_pull_request_event up to    *)
(* the event document.  The result is the document, Ignored, or Raise.     *)
(***************************************************************************)
Ignored == [t |-> "ignored"]

EventDoc(request_id, author, action, from_branch, to_branch, timestamp) ==
    [request_id |-> request_id, author |-> author, action |-> action,
     from_branch |-> from_branch, to_branch |-> to_branch, timestamp |-> timestamp]

PushEventDoc(payload) ==
    LET request_id == Index(Index(payload, "head_commit"), "id")
        author == Index(Index(payload, "pusher"), "name")
        to_branch == LastSegment(Index(payload, "ref"))
        timestamp == Index(Index(payload, "head_commit"), "timestamp")
    IN  IF Raise \in {request_id, author, to_branch, timestamp} THEN Raise
        ELSE EventDoc(request_id, author, "PUSH", Null, to_branch, timestamp)

PrKey(id) == "pr_" \o id

MergeKeyAsPr(id) == "pr_" \o id
MergeKey(id) == "merge_" \o id

\* action == 'closed' and pull_request.get('merged', False)
IsMergeAnyClosed(action, pull_request) == action = Str("closed")
IsMerge(action, pull_request) ==
    action = Str("closed") /\ Truthy(Get(pull_request, "merged", Bool(FALSE)))

\* timestamp of line 113: the default of .get is evaluated before the lookup
PrTimestamp(action, pull_request) ==
    IF action = Str("opened") THEN Index(pull_request, "created_at")
    ELSE Get(pull_request, "merged_at", Index(pull_request, "updated_at"))

PullRequestEventDoc(payload) ==
    LET action == Index(payload, "action")
        pull_request == Index(payload, "pull_request")
        id == Index(pull_request, "id")
        author == Index(Index(pull_request, "user"), "login")
        from_branch == Index(Index(pull_request, "head"), "ref")
        to_branch == Index(Index(pull_request, "base"), "ref")
        timestamp == PrTimestamp(action, pull_request)
    IN  IF Raise \in {action, pull_request, id, author, from_branch, to_branch, timestamp}
        THEN Raise
        ELSE IF IsMerge(action, pull_request)
        THEN EventDoc(Str(MergeKey(PyStr(id))), author, "MERGE", from_branch, to_branch, timestamp)
        ELSE IF action = Str("opened")
        THEN EventDoc(Str(PrKey(PyStr(id))), author, "PULL_REQUEST", from_branch, to_branch, timestamp)
        ELSE Ignored

(***************************************************************************)
(* The collection: find_one({'request_id': id}) and insert_one             *)
(***************************************************************************)
FindNothing(coll, request_id) == FALSE
FindOne(coll, request_id) ==
    \E i \in 1..Len(coll) : coll[i].request_id = request_id

InsertOneUpsert(coll, event_doc) ==
    IF \E i \in 1..Len(coll) : coll[i].request_id = event_doc.request_id
    THEN [i \in 1..Len(coll) |->
            IF coll[i].request_id = event_doc.request_id THEN event_doc ELSE coll[i]]
    ELSE Append(coll, event_doc)
InsertOne(coll, event_doc) == Append(coll, event_doc)

(***************************************************************************)
(* Timestamps: datetime.fromisoformat, strftime and the order in which     *)
(* the store sorts the timestamp field                                     *)
(***************************************************************************)
Zones == {"Z", "-05:00", "+05:30"}

\* utcoffset in minutes
ZoneOffset(z) == CASE z = "Z" -> 0 [] z = "-05:00" -> 0 - 300 [] z = "+05:30" -> 330

\* rank of the zone text in byte order: '+' (0x2B) < '-' (0x2D) < 'Z' (0x5A)
ZoneRank(z) == CASE z = "+05:30" -> 1 [] z = "-05:00" -> 2 [] z = "Z" -> 3

\* a sorted field compares by BSON type first: null < number < string < object < boolean
TypeRank(v) ==
    CASE v.t = "null" -> 1
      [] v.t = "int" -> 2
      [] v.t = "str" -> 3
      [] v.t = "obj" -> 4
      [] OTHER -> 5

\* "YYYY-MM-DDTHH:MM:00" and the zone text, as the fixed-width fields of the text
IsoText(ts) == <<ts.y, ts.mo, ts.d, ts.h, ts.mi, ZoneRank(ts.z)>>

LexLess(a, b) ==
    \E i \in 1..Len(a) : a[i] < b[i] /\ \A j \in 1..(i - 1) : a[j] = b[j]

\* strings compare byte by byte: ISO text starts with a digit, the plain
\* texts of this model with a letter; numbers compare by value
BsonLess(a, b) ==
    IF TypeRank(a) # TypeRank(b) THEN TypeRank(a) < TypeRank(b)
    ELSE IF a.t = "int" THEN a.n < b.n
    ELSE IF a.t # "str" THEN FALSE
    ELSE IF IsIso(a) /\ IsIso(b) THEN LexLess(IsoText(a.ts), IsoText(b.ts))
    ELSE IsIso(a) /\ ~IsIso(b)

\* .sort('timestamp', -1): no later document sorts above an earlier one
SortedDescending(docs) ==
    \A i, j \in 1..Len(docs) : i < j => ~BsonLess(docs[i].timestamp, docs[j].timestamp)

Orderings(n) == {f \in [1..n -> 1..n] : \A i, j \in 1..n : i # j => f[i] # f[j]}

\* the results of collection.find({}, {'_id': 0}).sort('timestamp', -1); ties in any order
FindSortedStale(coll) ==
    LET old == SubSeq(coll, 1, Len(coll) - 1)
    IN  {[i \in 1..Len(old) |-> old[f[i]]] : f \in {g \in Orderings(Len(old)) :
            SortedDescending([i \in 1..Len(old) |-> old[g[i]]])}}
FindSorted(coll) ==
    {[i \in 1..Len(coll) |-> coll[f[i]]] : f \in {g \in Orderings(Len(coll)) :
        SortedDescending([i \in 1..Len(coll) |-> coll[g[i]]])}}

MonthName(mo) ==
    <<"January", "February", "March", "April", "May", "June", "July",
      "August", "September", "October", "November", "December">>[mo]

Pad2(n) == IF n < 10 THEN "0" \o ToString(n) ELSE ToString(n)

OrdinalSuffixByLastDigit(day) ==
    CASE day % 10 = 1 -> "st"
      [] day % 10 = 2 -> "nd"
      [] day % 10 = 3 -> "rd"
      [] OTHER -> "th"
OrdinalSuffix(day) ==
    IF 10 <= day % 100 /\ day % 100 <= 20 THEN "th"
    ELSE CASE day % 10 = 1 -> "st"
           [] day % 10 = 2 -> "nd"
           [] day % 10 = 3 -> "rd"
           [] OTHER -> "th"

\* " %B %Y - %I:%M %p UTC" of the format string
StrftimeTail(ts) ==
    " " \o MonthName(ts.mo) \o " " \o ToString(ts.y)
        \o " - " \o Pad2(IF ts.h % 12 = 0 THEN 12 ELSE ts.h % 12) \o ":" \o Pad2(ts.mi)
        \o " " \o (IF ts.h < 12 THEN "AM" ELSE "PM") \o " UTC"

\* dt.strftime(f"%d{suffix} %B %Y - %I:%M %p UTC")
Strftime(ts) == Pad2(ts.d) \o OrdinalSuffix(ts.d) \o StrftimeTail(ts)

\* any exception (not a string, not ISO text) returns the argument itself
format_timestamp_raises(timestamp_str) ==
    IF IsIso(timestamp_str) THEN Str(Strftime(timestamp_str.ts)) ELSE Raise
format_timestamp(timestamp_str) ==
    IF IsIso(timestamp_str) THEN Str(Strftime(timestamp_str.ts)) ELSE timestamp_str

WithFormatted(event) ==
    [request_id |-> event.request_id, author |-> event.author, action |-> event.action,
     from_branch |-> event.from_branch, to_branch |-> event.to_branch,
     timestamp |-> event.timestamp,
     formatted_timestamp |-> format_timestamp(event.timestamp)]

\* the responses of get_events() when the store answers: the loop runs inside
\* the try block, so an exception in it gives the 500 response
get_events(coll) ==
    {IF \E i \in 1..Len(events) : format_timestamp(events[i].timestamp) = Raise
     THEN [status |-> 500, events |-> <<>>, error |-> "format error"]
     ELSE [status |-> 200, events |-> [i \in 1..Len(events) |-> WithFormatted(events[i])],
           error |-> ""]
        : events \in FindSorted(coll)}

(***************************************************************************)
(* Deliveries: the X-GitHub-Event header (Null when absent) and the body   *)
(* (Invalid when request.json cannot decode it)                            *)
(***************************************************************************)
TJanEast == Iso(2024, 1, 1, 20, 0, "-05:00")
TJan == Iso(2024, 1, 1, 23, 0, "Z")
TJun == Iso(2024, 6, 1, 0, 0, "Z")
TBad == Str("not-a-date")

PushBody(ref, name, id, timestamp) ==
    Obj([ref |-> ref, pusher |-> Obj([name |-> name]),
         head_commit |-> Obj([id |-> id, timestamp |-> timestamp])])

\* the pull_request object; times is the record of its time and merged fields
PullRequestBody(action, id, times) ==
    Obj([action |-> action,
         pull_request |-> Obj([id |-> id, user |-> Obj([login |-> Str("carol")]),
                               head |-> Obj([ref |-> Str("feature")]),
                               base |-> Obj([ref |-> Str("main")])] @@ times)])

PushMain == PushBody(Path(<<"refs", "heads", "main">>), Str("alice"), Str("c1"), TJanEast)
PushLogin == PushBody(Path(<<"refs", "heads", "feature", "login">>), Str("bob"), Str("c1"), TJun)
PushBare == PushBody(Str("main"), Str("alice"), Str("c2"), TBad)

PushBodies ==
    { PushMain, PushLogin, PushBare,
      PushBody(Path(<<"refs", "heads", "main">>), Str("alice"), Str(""), TJan),
      PushBody(Path(<<"refs", "heads", "main">>), Str("alice"), Null, TJan),
      Obj([ref |-> Str("main"), pusher |-> Obj([name |-> Str("alice")])]),
      Obj([ref |-> Str("main"), head_commit |-> Obj([id |-> Str("c1"), timestamp |-> TJan])]),
      Obj([pusher |-> Obj([name |-> Str("alice")]),
           head_commit |-> Obj([id |-> Str("c1"), timestamp |-> TJan])]),
      Null }

Opened == PullRequestBody(Str("opened"), Num(1), [created_at |-> TJan, updated_at |-> TJan])
Merged ==
    PullRequestBody(Str("closed"), Num(1),
        [created_at |-> TJan, updated_at |-> TJun, merged_at |-> TJun, merged |-> Bool(TRUE)])

PullRequestBodies ==
    { Opened, Merged,
      PullRequestBody(Str("closed"), Num(1),
          [created_at |-> TJan, updated_at |-> TJun, merged_at |-> Null, merged |-> Bool(FALSE)]),
      PullRequestBody(Str("closed"), Num(1), [created_at |-> TJan, updated_at |-> TJun]),
      PullRequestBody(Str("synchronize"), Num(1), [created_at |-> TJan, updated_at |-> TJun]),
      PullRequestBody(Str("closed"), Num(2),
          [created_at |-> TJan, updated_at |-> TJun, merged |-> Bool(TRUE)]),
      PullRequestBody(Str("closed"), Num(2),
          [created_at |-> TJan, merged_at |-> TJun, merged |-> Bool(TRUE)]),
      PullRequestBody(Str("closed"), Num(2),
          [created_at |-> TJan, updated_at |-> TJun, merged_at |-> Null, merged |-> Bool(TRUE)]),
      PullRequestBody(Str("opened"), Num(2), [updated_at |-> TJan]),
      PullRequestBody(Str("closed"), Num(2), [created_at |-> TJan, merged |-> Bool(TRUE)]),
      Obj([action |-> Str("opened"),
           pull_request |-> Obj([id |-> Num(2), user |-> Obj([login |-> Str("carol")]),
                                 head |-> Obj([ref |-> Null]),
                                 base |-> Obj([ref |-> Str("main")]),
                                 created_at |-> TJan])]),
      Obj([action |-> Str("opened"),
           pull_request |-> Obj([id |-> Num(2),
                                 head |-> Obj([ref |-> Str("feature")]),
                                 base |-> Obj([ref |-> Str("main")]),
                                 created_at |-> TJan])]),
      Obj([pull_request |-> Obj([id |-> Num(2)])]) }

Delivery(event_type, payload) == [event_type |-> event_type, payload |-> payload]

Deliveries ==
    {Delivery(Str("push"), b) : b \in PushBodies \cup {Invalid}}
    \cup {Delivery(Str("pull_request"), b) : b \in PullRequestBodies \cup {PushMain}}
    \cup {Delivery(Str("ping"), b) : b \in {Obj([zen |-> Str("hi")]), Invalid}}
    \cup {Delivery(Null, b) : b \in {PushMain, Opened}}

(***************************************************************************)
(* The state: the collection in insertion order, the deliveries with the   *)
(* place each has reached, and the last response of /events                *)
(***************************************************************************)
Idle ==
    [pc |-> "idle", event_type |-> Null, payload |-> Null, event_doc |-> Null,
     status |-> 0, log |-> ""]

NoFeed == [status |-> 0, events |-> <<>>, error |-> ""]

\* the response of get_events() when collection.find raises
GetEventsError == [status |-> 500, events |-> <<>>, error |-> "store error"]

Init ==
    /\ collection = <<>>
    /\ req = [r \in Slots |-> Idle]
    /\ feed = NoFeed

Done(r, status, log) ==
    req' = [req EXCEPT ![r].pc = "done", ![r].status = status, ![r].log = log]

\* status of webhook() when a handler's own try block caught an exception
HandlerErrorStatus == 200

\* webhook() up to the first store call of the handler it dispatches to
Dispatch(r, d) ==
    LET started == [req EXCEPT ![r].event_type = d.event_type, ![r].payload = d.payload]
        event_doc == IF d.event_type = Str("push") THEN PushEventDoc(d.payload)
                     ELSE PullRequestEventDoc(d.payload)
    IN  IF d.payload = Invalid
        THEN req' = [started EXCEPT ![r].pc = "done", ![r].status = 500, ![r].log = "error processing webhook"]
        ELSE IF d.event_type \notin {Str("push"), Str("pull_request")}
        THEN req' = [started EXCEPT ![r].pc = "done", ![r].status = 200, ![r].log = "unhandled"]
        ELSE IF event_doc = Raise
        THEN req' = [started EXCEPT ![r].pc = "done", ![r].status = HandlerErrorStatus, ![r].log = "extraction error"]
        ELSE IF event_doc = Ignored
        THEN req' = [started EXCEPT ![r].pc = "done", ![r].status = 200, ![r].log = "ignored"]
        ELSE req' = [started EXCEPT ![r].pc = "find", ![r].event_doc = event_doc]

Webhook(r) ==
    /\ req[r].pc = "idle"
    /\ \A q \in Slots : q < r => req[q].pc # "idle"
    /\ \E d \in Deliveries : Dispatch(r, d)
    /\ UNCHANGED <<collection, feed>>

\* collection.find_one returns: a document is found (skip) or not (go on to insert)
FindStep(r) ==
    /\ req[r].pc = "find"
    /\ IF FindOne(collection, req[r].event_doc.request_id)
       THEN Done(r, 200, "already exists")
       ELSE req' = [req EXCEPT ![r].pc = "insert"]
    /\ UNCHANGED <<collection, feed>>

\* collection.insert_one returns
InsertStep(r) ==
    /\ req[r].pc = "insert"
    /\ collection' = InsertOne(collection, req[r].event_doc)
    /\ Done(r, 200, "stored")
    /\ UNCHANGED feed

\* find_one or insert_one raises (store unavailable, timeout): caught by the handler
StoreFails(r) ==
    /\ req[r].pc \in {"find", "insert"}
    /\ Done(r, HandlerErrorStatus, "store error")
    /\ UNCHANGED <<collection, feed>>

GetEventsSaving ==
    /\ \E response \in get_events(collection) :
          /\ feed' = response
          /\ collection' = IF response.status = 200 THEN response.events ELSE collection
    /\ UNCHANGED req
GetEvents ==
    /\ \E response \in get_events(collection) : feed' = response
    /\ UNCHANGED <<collection, req>>

\* collection.find raises
GetEventsFails ==
    /\ feed' = GetEventsError
    /\ UNCHANGED <<collection, req>>

Next ==
    \/ \E r \in Slots : Webhook(r)
    \/ \E r \in Slots : FindStep(r)
    \/ \E r \in Slots : InsertStep(r)
    \/ \E r \in Slots : StoreFails(r)
    \/ GetEvents
    \/ GetEventsFails

Spec == Init /\ [][Next]_vars

\* deliveries one after the other: a delivery starts when no other is in progress
WebhookSeq(r) ==
    /\ \A q \in Slots : req[q].pc \in {"idle", "done"}
    /\ Webhook(r)

NextSeq ==
    \/ \E r \in Slots : WebhookSeq(r)
    \/ \E r \in Slots : FindStep(r)
    \/ \E r \in Slots : InsertStep(r)
    \/ \E r \in Slots : StoreFails(r)
    \/ GetEvents
    \/ GetEventsFails

SpecSeq == Init /\ [][NextSeq]_vars

\* the feed over a store that holds one push record, for every day of a
\* 30-day and of a 31-day month
FmtTimestamps ==
    {Iso(2021, 4, d, 21, 30, "Z") : d \in 1..30}
    \cup {Iso(2024, 1, d, h, 0, "Z") : d \in 1..31, h \in {0, 9, 12}}

InitFmt ==
    /\ \E ts \in FmtTimestamps :
          collection = <<PushEventDoc(PushBody(Str("main"), Str("alice"), Str("c1"), ts))>>
    /\ req = [r \in Slots |-> Idle]
    /\ feed = NoFeed

NextFmt ==
    \/ GetEvents
    \/ GetEventsFails

SpecFmt == InitFmt /\ [][NextFmt]_vars

(***************************************************************************)
(* Properties                                                              *)
(***************************************************************************)
Started(r) == req[r].pc # "idle"
Completed(r) == req[r].pc = "done"

\* the value under a key, Raise when there is none
Sub(v, key) == IF v.t = "obj" /\ key \in DOMAIN v.f THEN v.f[key] ELSE Raise

\* the value at a path of up to three keys, Raise when a key on the way is missing
AtPath(v, path) ==
    CASE Len(path) = 1 -> Sub(v, path[1])
      [] Len(path) = 2 -> Sub(Sub(v, path[1]), path[2])
      [] Len(path) = 3 -> Sub(Sub(Sub(v, path[1]), path[2]), path[3])

Has(v, path) == AtPath(v, path) # Raise

KeyCount(coll, request_id) == Cardinality({i \in 1..Len(coll) : coll[i].request_id = request_id})

IsPush(q) == q.event_type = Str("push")
IsPullRequest(q) == q.event_type = Str("pull_request")

\* C1: deliveries with the same identity key that are processed concurrently
\* insert once between them, and the store never holds two records with one key.
C1_OneInsertionPerKey ==
    /\ \A i, j \in 1..Len(collection) :
          i # j => collection[i].request_id # collection[j].request_id
    /\ \A r, q \in Slots :
          (r # q /\ req[r].log = "stored" /\ req[q].log = "stored")
              => req[r].event_doc.request_id # req[q].event_doc.request_id

\* a push payload with every field the normaliser reads, each a string
ValidPush(payload) ==
    \A path \in {<<"head_commit", "id">>, <<"head_commit", "timestamp">>,
                 <<"pusher", "name">>, <<"ref">>} : AtPath(payload, path).t = "str"

HeadCommitId(payload) == AtPath(payload, <<"head_commit", "id">>)

\* q is a delivery of the payload that the completed delivery r has stored
Redelivery(r, q) ==
    /\ r # q
    /\ IsPush(req[r]) /\ ValidPush(req[r].payload)
    /\ req[r].log = "stored"
    /\ req[q].event_type = req[r].event_type /\ req[q].payload = req[r].payload

\* C2: one after the other, a valid push is stored under head_commit.id, and a
\* second delivery of the same payload leaves the store as it is, with one
\* record for the key, and is answered with status 200.
C2_RedeliveryIdempotent ==
    /\ \A r \in Slots :
          (IsPush(req[r]) /\ ValidPush(req[r].payload) /\ req[r].pc \in {"find", "insert", "done"})
              => /\ req[r].event_doc.request_id = HeadCommitId(req[r].payload)
                 /\ req[r].log = "stored" =>
                        \E i \in 1..Len(collection) :
                            collection[i].request_id = HeadCommitId(req[r].payload)
    /\ \A r, q \in Slots :
          Redelivery(r, q) =>
              /\ KeyCount(collection, HeadCommitId(req[r].payload)) = 1
              /\ req[q].pc # "insert"
              /\ req[q].log # "stored"
              /\ Completed(q) => req[q].status = 200

C2_Witness ==
    \E r, q \in Slots :
        Redelivery(r, q) /\ Completed(q) /\ req[q].log = "already exists"

\* r delivered a pull request notification of this action for this id, and no
\* exception ended it
DeliveredPr(r, action, id) ==
    /\ Completed(r) /\ IsPullRequest(req[r])
    /\ req[r].log \in {"stored", "already exists"}
    /\ AtPath(req[r].payload, <<"action">>) = Str(action)
    /\ AtPath(req[r].payload, <<"pull_request", "id">>) = Num(id)

Holds(coll, request_id, action) ==
    \E i \in 1..Len(coll) : coll[i].request_id = Str(request_id) /\ coll[i].action = action

PrIds == {1, 2}

\* C3: once the opened and the closed-and-merged notification of one pull
\* request are both delivered, in either order, the store holds a PULL_REQUEST
\* record under "pr_"+id and a MERGE record under "merge_"+id.
C3_OpenedAndMergedCoexist ==
    \A id \in PrIds : \A r, q \in Slots :
        (DeliveredPr(r, "opened", id) /\ DeliveredPr(q, "closed", id))
            => /\ Holds(collection, "pr_" \o ToString(id), "PULL_REQUEST")
               /\ Holds(collection, "merge_" \o ToString(id), "MERGE")

C3_Witness ==
    \E r, q \in Slots :
        /\ r < q
        /\ DeliveredPr(q, "opened", 1) /\ req[q].log = "stored"
        /\ DeliveredPr(r, "closed", 1) /\ req[r].log = "stored"
        /\ Len(collection) = 2

\* C4: a delivery whose kind tag is neither "push" nor "pull_request" (or is
\* absent) stores nothing and is answered with status 200, whatever its body.
C4_UnhandledAcknowledged ==
    \A r \in Slots :
        (Started(r) /\ ~IsPush(req[r]) /\ ~IsPullRequest(req[r]))
            => Completed(r) /\ req[r].log # "stored" /\ req[r].status = 200

\* C5: a delivery whose store lookup or insert raised is answered with a
\* failure status, not with success.
C5_StoreFailureSurfaced ==
    \A r \in Slots : req[r].log = "store error" => req[r].status # 200

PushRequired ==
    {<<"head_commit", "id">>, <<"head_commit", "timestamp">>, <<"pusher", "name">>, <<"ref">>}

PullRequestRequired ==
    {<<"action">>, <<"pull_request", "id">>, <<"pull_request", "user", "login">>,
     <<"pull_request", "head", "ref">>, <<"pull_request", "base", "ref">>}

\* a push or pull_request notification, decoded, that lacks a field its record needs
MissingRequired(q) ==
    /\ q.payload # Invalid
    /\ \/ IsPush(q) /\ \E path \in PushRequired : ~Has(q.payload, path)
       \/ IsPullRequest(q) /\ \E path \in PullRequestRequired : ~Has(q.payload, path)
       \/ /\ IsPullRequest(q)
          /\ AtPath(q.payload, <<"action">>) = Str("opened")
          /\ ~Has(q.payload, <<"pull_request", "created_at">>)
       \/ /\ IsPullRequest(q)
          /\ AtPath(q.payload, <<"action">>) # Str("opened")
          /\ ~Has(q.payload, <<"pull_request", "merged_at">>)
          /\ ~Has(q.payload, <<"pull_request", "updated_at">>)

\* C6: a push or pull_request notification that lacks a required field is
\* dropped: it never reaches a store call, nothing of it is stored, and it is
\* answered with status 200.
C6_MissingFieldDropped ==
    \A r \in Slots :
        Started(r) =>
            \/ /\ Completed(r)
               /\ req[r].log = "extraction error"
               /\ req[r].event_doc = Null
               /\ req[r].status = 200
            \/ ~MissingRequired(req[r])

C6_Witness ==
    /\ \E r \in Slots : Completed(r) /\ IsPush(req[r]) /\ MissingRequired(req[r])
    /\ \E r \in Slots : Completed(r) /\ IsPullRequest(req[r]) /\ MissingRequired(req[r])

\* a decoded pull_request notification that is neither opened nor closed with merged = true
NeitherOpenedNorMerged(q) ==
    /\ IsPullRequest(q)
    /\ q.payload.t = "obj"
    /\ AtPath(q.payload, <<"action">>) # Str("opened")
    /\ ~(/\ AtPath(q.payload, <<"action">>) = Str("closed")
         /\ AtPath(q.payload, <<"pull_request", "merged">>) = Bool(TRUE))

DaysFromCivil(y, mo, d) ==
    LET yy == IF mo <= 2 THEN y - 1 ELSE y
        mm == IF mo <= 2 THEN mo + 9 ELSE mo - 3
    IN  365 * yy + (yy \div 4) - (yy \div 100) + (yy \div 400) + ((153 * mm + 2) \div 5) + d - 1

\* the instant an ISO timestamp denotes, in minutes of universal time
Instant(ts) ==
    (DaysFromCivil(ts.y, ts.mo, ts.d) * 24 + ts.h) * 60 + ts.mi - ZoneOffset(ts.z)

\* C8: the feed lists the stored records by event time, most recent first.
C8_FeedNewestFirst ==
    feed.status = 200 =>
        \A i, j \in 1..Len(feed.events) :
            (i < j /\ IsIso(feed.events[i].timestamp) /\ IsIso(feed.events[j].timestamp))
                => Instant(feed.events[i].timestamp.ts) >= Instant(feed.events[j].timestamp.ts)

\* C9: whatever the store holds, the feed query answers with status 200 and
\* every stored record; a record whose timestamp does not parse carries the
\* stored value as formatted_timestamp, every other record a formatted text.
C9_BadTimestampFallsBack ==
    LET responses == get_events(collection)
    IN  /\ responses # {}
        /\ \A response \in responses \cup {feed} :
              /\ response # NoFeed /\ response # GetEventsError => response.status = 200
              /\ response.status = 200 =>
                    \A i \in 1..Len(response.events) :
                        LET event == response.events[i]
                        IN  IF IsIso(event.timestamp)
                            THEN IsText(event.formatted_timestamp)
                            ELSE event.formatted_timestamp = event.timestamp
        /\ \A response \in responses :
              /\ Len(response.events) = Len(collection)
              /\ \A i \in 1..Len(collection) :
                    \E j \in 1..Len(response.events) :
                        response.events[j].request_id = collection[i].request_id

C9_Witness ==
    /\ feed.status = 200
    /\ Len(feed.events) = 2
    /\ \E i, j \in 1..2 :
          /\ feed.events[i].timestamp = TBad /\ feed.events[i].formatted_timestamp = TBad
          /\ IsIso(feed.events[j].timestamp)

\* C10: every stored record has a from_branch exactly when its action is not PUSH.
C10_FromBranchIffNotPush ==
    \A i \in 1..Len(collection) :
        (collection[i].from_branch # Null) <=> (collection[i].action # "PUSH")

\* C11: every stored record has a timestamp that is present and parses as ISO-8601.
C11_TimestampParseable ==
    \A i \in 1..Len(collection) : IsIso(collection[i].timestamp)

\* C12: no step changes or removes a stored record; a step leaves the store
\* as it is or adds one record at its end.
C12_RecordsImmutable ==
    [][/\ Len(collection') \in {Len(collection), Len(collection) + 1}
       /\ \A i \in 1..Len(collection) : collection'[i] = collection[i]]_vars

C12_Witness ==
    /\ Len(collection) = 1
    /\ feed.status = 200 /\ Len(feed.events) = 1
    /\ \E r, q \in Slots :
          /\ req[r].log = "stored" /\ req[q].log = "already exists"
          /\ req[q].event_doc # req[r].event_doc

\* a decoded closed-and-merged notification with every field but the times
MergeDelivery(q) ==
    /\ IsPullRequest(q)
    /\ AtPath(q.payload, <<"action">>) = Str("closed")
    /\ AtPath(q.payload, <<"pull_request", "merged">>) = Bool(TRUE)
    /\ \A path \in PullRequestRequired : Has(q.payload, path)

MergedAt(q) == AtPath(q.payload, <<"pull_request", "merged_at">>)
UpdatedAt(q) == AtPath(q.payload, <<"pull_request", "updated_at">>)

\* C13: a closed-and-merged notification is stored with merged_at as its
\* timestamp when merged_at is present, whether or not updated_at is, and
\* with updated_at when merged_at is absent or null.
C13_MergeTimestamp ==
    \A r \in Slots :
        (Started(r) /\ MergeDelivery(req[r]))
            => /\ MergedAt(req[r]) \notin {Raise, Null}
                    => /\ req[r].log # "extraction error"
                       /\ req[r].event_doc # Null
                       /\ req[r].event_doc.timestamp = MergedAt(req[r])
               /\ (MergedAt(req[r]) \in {Raise, Null} /\ UpdatedAt(req[r]) # Raise)
                    => /\ req[r].event_doc # Null
                       /\ req[r].event_doc.timestamp = UpdatedAt(req[r])

\* a step of a feed query: the steps of webhook() each move a delivery on
FeedStep == req' = req

\* the stored fields of a returned event
Stored(event) ==
    EventDoc(event.request_id, event.author, event.action, event.from_branch,
             event.to_branch, event.timestamp)

\* C14: a feed query that the store answers returns every record that is in
\* the store when the query runs, whatever an earlier query returned.
C14_FeedReadsCurrentStore ==
    [][(FeedStep /\ feed' # GetEventsError) =>
          /\ Len(feed'.events) = Len(collection)
          /\ \A i \in 1..Len(collection) :
                \E j \in 1..Len(feed'.events) : Stored(feed'.events[j]) = collection[i]]_vars

C14_Witness ==
    /\ feed.status = 200
    /\ Len(collection) = 2
    /\ Len(feed.events) = 2
    /\ \A r \in Slots : req[r].log = "stored"

\* the branch a ref names: its last segment, the whole ref when it has no separator
BranchOf(ref) ==
    CASE ref = Path(<<"refs", "heads", "feature", "login">>) -> Str("login")
      [] ref = Path(<<"refs", "heads", "main">>) -> Str("main")
      [] ref = Str("main") -> Str("main")

\* C15: to_branch of a push record is the last '/'-separated segment of the
\* ref, and the whole ref when there is no separator; every stored PUSH
\* record is the record of such a delivery.
C15_ToBranchLastSegment ==
    /\ \A r \in Slots :
          (IsPush(req[r]) /\ req[r].event_doc # Null)
              => req[r].event_doc.to_branch = BranchOf(AtPath(req[r].payload, <<"ref">>))
    /\ \A i \in 1..Len(collection) :
          collection[i].action = "PUSH"
              => \E r \in Slots : IsPush(req[r]) /\ req[r].event_doc = collection[i]

C15_Witness ==
    /\ Len(collection) = 2
    /\ collection[1].to_branch = Str("login") /\ collection[1].action = "PUSH"
    /\ collection[2].to_branch = Str("main") /\ collection[2].timestamp = TBad

\* the day of the month with its ordinal suffix, for days 1 to 31
DayText ==
    <<"01st", "02nd", "03rd", "04th", "05th", "06th", "07th", "08th", "09th", "10th",
      "11th", "12th", "13th", "14th", "15th", "16th", "17th", "18th", "19th", "20th",
      "21st", "22nd", "23rd", "24th", "25th", "26th", "27th", "28th", "29th", "30th",
      "31st">>

C17_KeyNonEmpty ==
    /\ \A r \in Slots :
          req[r].event_doc # Null => req[r].event_doc.request_id \notin {Null, Str("")}
    /\ \A i \in 1..Len(collection) : collection[i].request_id \notin {Null, Str("")}

\* C18: a delivery that arrives when its identity key is already stored
\* changes nothing in the store, never reaches the insert, and is answered
\* with status 200, also when its other fields differ from the stored ones.
C18_FirstWriterWins ==
    [][\A r \in Slots :
          (/\ req[r].pc \in {"idle", "find"}
           /\ req'[r] # req[r]
           /\ req'[r].event_doc # Null
           /\ KeyCount(collection, req'[r].event_doc.request_id) > 0)
              => /\ collection' = collection
                 /\ req'[r].pc \in {"find", "done"}
                 /\ req'[r].pc = "done"
                        => req'[r].status = 200 /\ req'[r].log # "stored"]_vars

C18_Witness ==
    /\ Len(collection) = 1
    /\ collection[1] = PushEventDoc(PushMain)
    /\ \E q \in Slots :
          /\ req[q].payload = PushLogin /\ IsPush(req[q])
          /\ req[q].log = "already exists" /\ req[q].status = 200

\* C19: a feed query, answered or failed, leaves the store as it is, and no
\* stored record ever carries a formatted_timestamp.
C19_FeedReadOnly ==
    [][/\ FeedStep => collection' = collection
       /\ \A i \in 1..Len(collection') : "formatted_timestamp" \notin DOMAIN collection'[i]]_vars

C19_Witness ==
    /\ feed.status = 200
    /\ Len(feed.events) = 1
    /\ feed.events[1].formatted_timestamp # feed.events[1].timestamp
    /\ Len(collection) = 2

====
